---- MODULE Spec2Model ----
(***************************************************************************)
(* The two real-time playback scripts of the repository:                   *)
(*   play_sheet_on_organ.py          (hardware MIDI port, prog = "organ")   *)
(*   play_sheet_on_virtual_organ.py  (FluidSynth,        prog = "virtual") *)
(*                                                                         *)
(* Units.  Real time is counted in milliseconds.  quarterLength is an      *)
(* integer number of quarter notes.  With the tempi used here (60, 120,    *)
(* 240 BPM) every product quarterLength * 60/BPM is a whole number of      *)
(* milliseconds and is exact in binary floating point as well, so the      *)
(* integer arithmetic below is the arithmetic of the scripts.              *)
(*                                                                         *)
(* An optional value (Python None or a number) is a set: {} or {v}.        *)
(* score.metronomeMarkBoundaries is read by both scripts as the list of    *)
(* the score's tempo markings; it is modelled as the list of their BPMs.   *)
(***************************************************************************)
EXTENDS Integers, Sequences, FiniteSets

\* ---------------------------------------------------------------- bounds
\* Longest score (number of Note/Chord/Rest objects) that is explored.
MaxEvents == 3

\* ------------------------------------------------------ program constants
ORGAN_CHANNEL == 1
ORGAN_KEY_OFFSET == 0
\* TIME_RESOLUTION = 0.05 seconds per quarter note, in milliseconds.
TIME_RESOLUTION == 50
\* ms_per_quarter = 60000 / 120: the numerator and the default tempo.
MS_PER_MINUTE == 60000
DEFAULT_BPM == 120
\* velocity fallback of the MIDI script, and the constant of fs.noteon.
ORGAN_DEFAULT_VELOCITY == 64
SYNTH_VELOCITY == 127
SYNTH_CHANNEL == 0

\* ------------------------------------------------------------ score data
Note(p, q, v) == [type |-> "Note", pitches |-> <<p>>, quarterLength |-> q, velocity |-> v]
Chord(ps, q, v) == [type |-> "Chord", pitches |-> ps, quarterLength |-> q, velocity |-> v]
Rest(q) == [type |-> "Rest", pitches |-> <<>>, quarterLength |-> q, velocity |-> {}]

\* The musical objects a score is built from: notes with and without an
\* explicit velocity, a note near the top of the MIDI range, rests, a
\* two-voice chord, and a chord whose pitch list is unsorted and names one
\* MIDI pitch twice.
EventPool ==
    { Note(60, 1, {}), Note(62, 2, {100}), Note(125, 1, {}),
      Rest(1), Rest(2),
      Chord(<<64, 67>>, 1, {}), Chord(<<67, 60, 67>>, 2, {0}) }

\* The tempo marking lists a score may carry, and the TEMPO_BPM settings:
\* None, a tempo, and the two kinds of non-positive number.
MarkLists == { <<>>, <<240>>, <<240, 60>> }
TempoSettings == { {}, {60}, {0}, {0 - 60} }

\* The ORGAN_KEY_OFFSET settings: the one of the source, and a shift of
\* five semitones.
KeyOffsets == { ORGAN_KEY_OFFSET, 5 }

Scores ==
    { [events |-> es, marks |-> ms] :
        es \in UNION { [1..n -> EventPool] : n \in 0..MaxEvents },
        ms \in MarkLists }

NoScore == [events |-> <<>>, marks |-> <<>>]

VARIABLES
    prog,            \* which script runs
    pc,              \* position in the script; it ends at "done", at
                     \* "exit_open" / "exit_sfload" / "exit_parse"
                     \* (sys.exit(1)), at "crashed" (a backend call
                     \* raised) or at "raised" (another uncaught exception)
    handle,          \* the backend handle: "none", "open", "released"
    TEMPO_BPM,       \* configuration of the synthesizer script
    key_offset,      \* configuration of the MIDI script: ORGAN_KEY_OFFSET
    score,           \* the parsed score
    bpm,             \* the resolved tempo (0: not resolved yet)
    ms_per_quarter,  \* MIDI script: 60000 / bpm
    seconds_per_quarter, \* synthesizer script: 60.0 / bpm, in ms
    idx,             \* loop position (1-based)
    events,          \* MIDI script: the messages of the current object
    k,               \* position inside events / inside a chord's pitches
    current_offset,  \* synthesizer script: the running clock, in ms
    now,             \* real time spent in time.sleep so far, in ms
    sounding,        \* <<pitch, channel>> the backend was told to sound
    log              \* every backend call and every sleep, in order

\* The state of convert_musicxml_to_midi.py.
VARIABLES
    cpc,             \* position in main(); it ends at "exited"
    args,            \* the command line and what it names on disk
    stdin,           \* standard input: a terminal or not, and its lines
    confirm,         \* the answer read by input(), lower-cased
    midi_file,       \* the file at args.output_midi: "absent", "old",
                     \* "new" (written whole) or "partial"
    result,          \* how the run went: "success", "parse", "program",
                     \* "insert", "write", "aborted", "usage", "eof"
    exit_code        \* the process's exit status

\* The state of download_lutheran_hymn_sheet_music.py.
VARIABLES
    spc,             \* position in main(); it ends at "finished" or "raised"
    hymn,            \* position of the for loop in HYMNS (1-based)
    time,            \* time.time(), in ms
    last_request_time,
    sent,            \* the times at which the last two requests were sent
    attempted,       \* the hymns whose loop body was entered, in order
    saved            \* the hymns whose PDF was written

playback == << prog, pc, handle, TEMPO_BPM, key_offset, score, bpm,
               ms_per_quarter, seconds_per_quarter, idx, events, k,
               current_offset, now, sounding, log >>

converter == << cpc, args, stdin, confirm, midi_file, result, exit_code >>

scraper == << spc, hymn, time, last_request_time, sent, attempted, saved >>

vars == << playback, converter, scraper >>

\* One line of the history: a backend call (op "on" / "off", with ok
\* telling whether the call returned or raised) or a sleep (op "wait").
Call(op, ev, pitch, velocity, channel, ok) ==
    [op |-> op, ev |-> ev, t |-> now, pitch |-> pitch, velocity |-> velocity,
     channel |-> channel, ms |-> 0, ok |-> ok]
Wait(ev, ms, why) ==
    [op |-> why, ev |-> ev, t |-> now, pitch |-> 0, velocity |-> 0,
     channel |-> 0, ms |-> ms, ok |-> TRUE]

\* The converter is not running.
ConverterIdle ==
    /\ cpc = "idle"
    /\ args = [input_xml |-> "missing", output_midi |-> "absent", program |-> {}]
    /\ stdin = [tty |-> TRUE, lines |-> <<>>]
    /\ confirm = {}
    /\ midi_file = "absent"
    /\ result = "none"
    /\ exit_code = {}

\* The scraper is not running.
ScraperIdle ==
    /\ spc = "idle"
    /\ hymn = 1
    /\ time = 0
    /\ last_request_time = 0
    /\ sent = <<>>
    /\ attempted = <<>>
    /\ saved = {}

\* Neither playback script is running.
PlaybackIdle ==
    /\ prog = "none"
    /\ TEMPO_BPM = {}
    /\ key_offset = ORGAN_KEY_OFFSET
    /\ pc = "idle"
    /\ handle = "none"
    /\ score = NoScore
    /\ bpm = 0
    /\ ms_per_quarter = 0
    /\ seconds_per_quarter = 0
    /\ idx = 1
    /\ events = <<>>
    /\ k = 1
    /\ current_offset = 0
    /\ now = 0
    /\ sounding = {}
    /\ log = <<>>

Init ==
    /\ prog \in {"organ", "virtual"}
    /\ TEMPO_BPM \in (IF prog = "virtual" THEN TempoSettings ELSE {{}})
    /\ key_offset \in (IF prog = "organ" THEN KeyOffsets ELSE {ORGAN_KEY_OFFSET})
    /\ pc = "open"
    /\ handle = "none"
    /\ score = NoScore
    /\ bpm = 0
    /\ ms_per_quarter = 0
    /\ seconds_per_quarter = 0
    /\ idx = 1
    /\ events = <<>>
    /\ k = 1
    /\ current_offset = 0
    /\ now = 0
    /\ sounding = {}
    /\ log = <<>>
    /\ ConverterIdle
    /\ ScraperIdle

\* ------------------------------------------------------------- helpers
\* The lowest element instead of the highest.
RECURSIVE MinOf(_)
MinOf(S) ==
    IF Cardinality(S) = 1 THEN CHOOSE x \in S : TRUE
    ELSE LET x == CHOOSE y \in S : TRUE
             m == MinOf(S \ {x})
         IN  IF x < m THEN x ELSE m

\* sorted(pitches, key=midi)[-1]: the highest element.
RECURSIVE MaxOf(_)
MaxOf(S) ==
    IF Cardinality(S) = 1 THEN CHOOSE x \in S : TRUE
    ELSE LET x == CHOOSE y \in S : TRUE
             m == MaxOf(S \ {x})
         IN  IF x > m THEN x ELSE m

Range(s) == { s[i] : i \in 1..Len(s) }

\* a / b for the numbers met here (b divides a); the scripts never get a
\* result for b = 0, the division raises ZeroDivisionError.
Quotient(a, b) ==
    IF b > 0 THEN a \div b
    ELSE IF b < 0 THEN 0 - (a \div (0 - b))
    ELSE 0

\* Python truthiness of an optional number: None and 0 are false.
Truthy(v) == v # {} /\ v # {0}
TheValue(v) == CHOOSE x \in v : TRUE

\* What the backend sounds after a call that returned.
SoundAfter(op, pitch, channel) ==
    IF op = "on" THEN sounding \cup {<<pitch, channel>>}
    ELSE sounding \ {<<pitch, channel>>}

\* =====================================================================
\* play_sheet_on_organ.py
\* =====================================================================

\* flat_notes = score.flat.notesAndRests
flat_notes == score.events

\* A data byte mido.Message accepts without raising.
ValidDataByte_Any(v) == TRUE

\* mido.Message(..., note=midi_pitch, velocity=velocity, ...) accepts a
\* data byte in 0..127 and raises ValueError for any other.
ValidDataByte(v) == v \in 0..127

\* note_to_midi_events without the note_off message.
note_to_midi_events_NoOff(m21_note, start_tick) ==
    LET chan == ORGAN_CHANNEL - 1
        duration == m21_note.quarterLength
    IN  IF m21_note.type = "Rest"
        THEN [events |-> <<>>, duration |-> duration]
        ELSE LET base == IF m21_note.type = "Chord"
                         THEN MaxOf(Range(m21_note.pitches))
                         ELSE m21_note.pitches[1]
             IN  [events |->
                    << [type |-> "note_on", note |-> base + key_offset,
                        velocity |-> ORGAN_DEFAULT_VELOCITY, channel |-> chan,
                        time |-> duration * 1000] >>,
                  duration |-> duration]

\* note_to_midi_events(m21_note, start_tick): the messages and the duration.
\* A message's time is in the unit time.sleep(msg.time / 1000.0) divides by.
note_to_midi_events(m21_note, start_tick) ==
    LET chan == ORGAN_CHANNEL - 1
        duration == m21_note.quarterLength
    IN  IF m21_note.type = "Rest"
        THEN [events |-> <<>>, duration |-> duration]
        ELSE LET base == IF m21_note.type = "Chord"
                         THEN MaxOf(Range(m21_note.pitches))
                         ELSE m21_note.pitches[1]
                 midi_pitch == base + key_offset
                 velocity == IF Truthy(m21_note.velocity)
                             THEN TheValue(m21_note.velocity)
                             ELSE ORGAN_DEFAULT_VELOCITY
             IN  [events |->
                    << [type |-> "note_on", note |-> midi_pitch,
                        velocity |-> velocity, channel |-> chan,
                        time |-> start_tick],
                       [type |-> "note_off", note |-> midi_pitch,
                        velocity |-> 0, channel |-> chan,
                        time |-> duration * 1000] >>,
                  duration |-> duration]

\* Whether building the messages of m21_note raises.
MessageRaises(m21_note) ==
    /\ m21_note.type # "Rest"
    /\ \E m \in Range(note_to_midi_events(m21_note, 0).events) :
          ~ValidDataByte(m.note) \/ ~ValidDataByte(m.velocity)

\* midi_out = mido.open_output(MIDI_PORT_NAME)
OrganOpenPort ==
    /\ prog = "organ" /\ pc = "open"
    /\ handle' = "open"
    /\ pc' = "parse"
    /\ UNCHANGED << converter, scraper, key_offset, prog, TEMPO_BPM, score, bpm, ms_per_quarter,
                    seconds_per_quarter, idx, events, k, current_offset,
                    now, sounding, log >>

\* open_output raises OSError: the ports are listed and sys.exit(1).
OrganOpenPortFail ==
    /\ prog = "organ" /\ pc = "open"
    /\ pc' = "exit_open"
    /\ UNCHANGED << converter, scraper, key_offset, prog, handle, TEMPO_BPM, score, bpm, ms_per_quarter,
                    seconds_per_quarter, idx, events, k, current_offset,
                    now, sounding, log >>

\* score = converter.parse(SCORE_FILE)
OrganParseScore ==
    /\ prog = "organ" /\ pc = "parse"
    /\ \E s \in Scores : score' = s
    /\ pc' = "tempo"
    /\ UNCHANGED << converter, scraper, key_offset, prog, handle, TEMPO_BPM, bpm, ms_per_quarter,
                    seconds_per_quarter, idx, events, k, current_offset,
                    now, sounding, log >>

\* converter.parse raises: the error is printed and sys.exit(1).
OrganParseFail ==
    /\ prog = "organ" /\ pc = "parse"
    /\ pc' = "exit_parse"
    /\ UNCHANGED << converter, scraper, key_offset, prog, handle, TEMPO_BPM, score, bpm, ms_per_quarter,
                    seconds_per_quarter, idx, events, k, current_offset,
                    now, sounding, log >>

\* ms_per_quarter = 60000 / 120, replaced by 60000 / bpm of the first
\* tempo marking when the score has one.
OrganTempo ==
    /\ prog = "organ" /\ pc = "tempo"
    /\ IF score.marks # <<>>
       THEN /\ bpm' = score.marks[1]
            /\ ms_per_quarter' = MS_PER_MINUTE \div score.marks[1]
       ELSE /\ bpm' = bpm
            /\ ms_per_quarter' = MS_PER_MINUTE \div DEFAULT_BPM
    /\ pc' = "loop"
    /\ UNCHANGED << converter, scraper, key_offset, prog, handle, TEMPO_BPM, score, seconds_per_quarter,
                    idx, events, k, current_offset, now, sounding, log >>

\* Loop body for an object without messages (a rest):
\* time.sleep(dur * TIME_RESOLUTION); continue
OrganRest ==
    /\ prog = "organ" /\ pc = "loop" /\ idx <= Len(flat_notes)
    /\ LET r == note_to_midi_events(flat_notes[idx], 0)
       IN  /\ ~MessageRaises(flat_notes[idx])
           /\ r.events = <<>>
           /\ now' = now + r.duration * TIME_RESOLUTION
           /\ log' = Append(log, Wait(idx, r.duration * TIME_RESOLUTION, "wait"))
    /\ idx' = idx + 1
    /\ UNCHANGED << converter, scraper, key_offset, prog, pc, handle, TEMPO_BPM, score, bpm, ms_per_quarter,
                    seconds_per_quarter, events, k, current_offset, sounding >>

\* Loop body for an object with messages: enter "for msg in events".
OrganEvents ==
    /\ prog = "organ" /\ pc = "loop" /\ idx <= Len(flat_notes)
    /\ LET r == note_to_midi_events(flat_notes[idx], 0)
       IN  /\ ~MessageRaises(flat_notes[idx])
           /\ r.events # <<>>
           /\ events' = r.events
    /\ k' = 1
    /\ pc' = "send"
    /\ UNCHANGED << converter, scraper, key_offset, prog, handle, TEMPO_BPM, score, bpm, ms_per_quarter,
                    seconds_per_quarter, idx, current_offset, now,
                    sounding, log >>

\* note_to_midi_events raises inside mido.Message: nothing catches the
\* ValueError, the script ends before anything of this object is sent.
OrganTranslateFail ==
    /\ prog = "organ" /\ pc = "loop" /\ idx <= Len(flat_notes)
    /\ MessageRaises(flat_notes[idx])
    /\ pc' = "raised"
    /\ UNCHANGED << converter, scraper, key_offset, prog, handle, TEMPO_BPM, score, bpm,
                    ms_per_quarter, seconds_per_quarter, idx, events, k,
                    current_offset, now, sounding, log >>

MsgOp(msg) == IF msg.type = "note_on" THEN "on" ELSE "off"

\* midi_out.send(msg) returns.
OrganSend ==
    /\ prog = "organ" /\ pc = "send"
    /\ LET msg == events[k]
       IN  /\ sounding' = SoundAfter(MsgOp(msg), msg.note, msg.channel)
           /\ log' = Append(log, Call(MsgOp(msg), idx, msg.note, msg.velocity,
                                      msg.channel, TRUE))
    /\ pc' = "msgsleep"
    /\ UNCHANGED << converter, scraper, key_offset, prog, handle, TEMPO_BPM, score, bpm, ms_per_quarter,
                    seconds_per_quarter, idx, events, k, current_offset, now >>

\* midi_out.send(msg) raises: nothing catches it, the script ends.
OrganSendFail ==
    /\ prog = "organ" /\ pc = "send"
    /\ LET msg == events[k]
       IN  log' = Append(log, Call(MsgOp(msg), idx, msg.note, msg.velocity,
                                   msg.channel, FALSE))
    /\ pc' = "crashed"
    /\ UNCHANGED << converter, scraper, key_offset, prog, handle, TEMPO_BPM, score, bpm, ms_per_quarter,
                    seconds_per_quarter, idx, events, k, current_offset, now,
                    sounding >>

\* time.sleep(msg.time / 1000.0), then the next message or the next object.
OrganSleep ==
    /\ prog = "organ" /\ pc = "msgsleep"
    /\ now' = now + events[k].time
    /\ log' = Append(log, Wait(idx, events[k].time, "wait"))
    /\ IF k < Len(events)
       THEN /\ k' = k + 1
            /\ pc' = "send"
            /\ idx' = idx
       ELSE /\ k' = 1
            /\ pc' = "loop"
            /\ idx' = idx + 1
    /\ UNCHANGED << converter, scraper, key_offset, prog, handle, TEMPO_BPM, score, bpm, ms_per_quarter,
                    seconds_per_quarter, events, current_offset, sounding >>

\* After the loop: midi_out.close()
OrganClose ==
    /\ prog = "organ" /\ pc = "loop" /\ idx > Len(flat_notes)
    /\ handle' = "released"
    /\ pc' = "done"
    /\ UNCHANGED << converter, scraper, key_offset, prog, TEMPO_BPM, score, bpm, ms_per_quarter,
                    seconds_per_quarter, idx, events, k, current_offset,
                    now, sounding, log >>

OrganNext ==
    \/ OrganOpenPort \/ OrganOpenPortFail
    \/ OrganParseScore \/ OrganParseFail
    \/ OrganTempo
    \/ OrganRest \/ OrganEvents \/ OrganTranslateFail
    \/ OrganSend \/ OrganSendFail \/ OrganSleep
    \/ OrganClose

\* =====================================================================
\* play_sheet_on_virtual_organ.py
\* =====================================================================

\* flat.getElementsByClass(['Note', 'Chord']): the positions, in score
\* order, of the objects the streaming loop visits.
getElementsByClass(es) ==
    SelectSeq([i \in 1..Len(es) |-> i],
              LAMBDA i : es[i].type \in {"Note", "Chord"})

Els == getElementsByClass(score.events)

\* The object the loop is at, and its position in the score.
ElPos == Els[idx]
El == score.events[ElPos]

\* bpm = TEMPO_BPM if it is not None, else the first MetronomeMark's
\* number, else 120.
ResolveTempo(override, marks) ==
    IF override # {} THEN TheValue(override)
    ELSE IF marks # <<>> THEN marks[1] ELSE DEFAULT_BPM

\* The chord reduced to its highest pitch, as the MIDI script does.
ChordPitches_Highest(el) == << MaxOf(Range(el.pitches)) >>

\* pitches = [p.midi for p in el.pitches]
ChordPitches(el) == el.pitches

\* duration * (60.0 / bpm), in milliseconds.
HoldTime(duration) == Quotient(duration * MS_PER_MINUTE, bpm)

\* fs = fluidsynth.Synth(); fs.start(driver="alsa")
VirtualSynthStart ==
    /\ prog = "virtual" /\ pc = "open"
    /\ handle' = "open"
    /\ pc' = "sfload"
    /\ UNCHANGED << converter, scraper, key_offset, prog, TEMPO_BPM, score, bpm, ms_per_quarter,
                    seconds_per_quarter, idx, events, k, current_offset, now,
                    sounding, log >>

\* Synth() or start() raises: "[ERROR] Failed to initialise", sys.exit(1).
VirtualSynthStartFail ==
    /\ prog = "virtual" /\ pc = "open"
    /\ pc' = "exit_open"
    /\ UNCHANGED << converter, scraper, key_offset, prog, handle, TEMPO_BPM, score, bpm, ms_per_quarter,
                    seconds_per_quarter, idx, events, k, current_offset, now,
                    sounding, log >>

\* sfid = fs.sfload(SOUND_FONT); fs.program_select(0, sfid, 0, ORGAN_PROGRAM)
VirtualSfload ==
    /\ prog = "virtual" /\ pc = "sfload"
    /\ pc' = "parse"
    /\ UNCHANGED << converter, scraper, key_offset, prog, handle, TEMPO_BPM, score, bpm, ms_per_quarter,
                    seconds_per_quarter, idx, events, k, current_offset, now,
                    sounding, log >>

\* sfload returns -1 (RuntimeError) or a call raises: sys.exit(1).
VirtualSfloadFail ==
    /\ prog = "virtual" /\ pc = "sfload"
    /\ pc' = "exit_sfload"
    /\ UNCHANGED << converter, scraper, key_offset, prog, handle, TEMPO_BPM, score, bpm, ms_per_quarter,
                    seconds_per_quarter, idx, events, k, current_offset, now,
                    sounding, log >>

\* score = converter.parse(SCORE_FILE)
VirtualParseScore ==
    /\ prog = "virtual" /\ pc = "parse"
    /\ \E s \in Scores : score' = s
    /\ pc' = "tempo"
    /\ UNCHANGED << converter, scraper, key_offset, prog, handle, TEMPO_BPM, bpm, ms_per_quarter,
                    seconds_per_quarter, idx, events, k, current_offset, now,
                    sounding, log >>

\* converter.parse raises: the error is printed and sys.exit(1).
VirtualParseFail ==
    /\ prog = "virtual" /\ pc = "parse"
    /\ pc' = "exit_parse"
    /\ UNCHANGED << converter, scraper, key_offset, prog, handle, TEMPO_BPM, score, bpm, ms_per_quarter,
                    seconds_per_quarter, idx, events, k, current_offset, now,
                    sounding, log >>

\* The tempo is resolved; current_offset = 0.0;
\* seconds_per_quarter = 60.0 / bpm.
VirtualTempo ==
    /\ prog = "virtual" /\ pc = "tempo"
    /\ bpm' = ResolveTempo(TEMPO_BPM, score.marks)
    /\ bpm' # 0
    /\ current_offset' = 0
    /\ seconds_per_quarter' = Quotient(MS_PER_MINUTE, bpm')
    /\ pc' = "loop"
    /\ UNCHANGED << converter, scraper, key_offset, prog, handle, TEMPO_BPM, score, ms_per_quarter, idx,
                    events, k, now, sounding, log >>

\* bpm = TEMPO_BPM = 0: seconds_per_quarter = 60.0 / bpm raises
\* ZeroDivisionError, nothing catches it.
VirtualTempoFail ==
    /\ prog = "virtual" /\ pc = "tempo"
    /\ bpm' = ResolveTempo(TEMPO_BPM, score.marks)
    /\ bpm' = 0
    /\ current_offset' = 0
    /\ pc' = "raised"
    /\ UNCHANGED << converter, scraper, key_offset, prog, handle, TEMPO_BPM, score,
                    ms_per_quarter, seconds_per_quarter, idx, events, k,
                    now, sounding, log >>

\* play_element(el, current_offset) begins: time.sleep(time_offset),
\* then the branch on the element's class.
VirtualWaitOffset ==
    /\ prog = "virtual" /\ pc = "loop" /\ idx <= Len(Els)
    /\ now' = now + current_offset
    /\ log' = Append(log, Wait(ElPos, current_offset, "offset"))
    /\ k' = 1
    /\ pc' = IF El.type = "Note" THEN "note_on" ELSE "chord_on"
    /\ UNCHANGED << converter, scraper, key_offset, prog, handle, TEMPO_BPM, score, bpm, ms_per_quarter,
                    seconds_per_quarter, idx, events, current_offset,
                    sounding >>

\* Note branch: fs.noteon(0, pitch, 127) returns.
VirtualNoteOn ==
    /\ prog = "virtual" /\ pc = "note_on"
    /\ LET pitch == El.pitches[1]
       IN  /\ sounding' = SoundAfter("on", pitch, SYNTH_CHANNEL)
           /\ log' = Append(log, Call("on", ElPos, pitch, SYNTH_VELOCITY,
                                      SYNTH_CHANNEL, TRUE))
    /\ pc' = "note_hold"
    /\ UNCHANGED << converter, scraper, key_offset, prog, handle, TEMPO_BPM, score, bpm, ms_per_quarter,
                    seconds_per_quarter, idx, events, k, current_offset,
                    now >>

\* Note branch: time.sleep(duration * (60.0 / bpm))
VirtualNoteHold ==
    /\ prog = "virtual" /\ pc = "note_hold"
    /\ HoldTime(El.quarterLength) >= 0
    /\ now' = now + HoldTime(El.quarterLength)
    /\ log' = Append(log, Wait(ElPos, HoldTime(El.quarterLength), "wait"))
    /\ pc' = "note_off"
    /\ UNCHANGED << converter, scraper, key_offset, prog, handle, TEMPO_BPM, score, bpm, ms_per_quarter,
                    seconds_per_quarter, idx, events, k, current_offset,
                    sounding >>

\* Note branch: fs.noteoff(0, pitch) returns; play_element returns.
VirtualNoteOff ==
    /\ prog = "virtual" /\ pc = "note_off"
    /\ LET pitch == El.pitches[1]
       IN  /\ sounding' = SoundAfter("off", pitch, SYNTH_CHANNEL)
           /\ log' = Append(log, Call("off", ElPos, pitch, 0,
                                      SYNTH_CHANNEL, TRUE))
    /\ pc' = "advance"
    /\ UNCHANGED << converter, scraper, key_offset, prog, handle, TEMPO_BPM, score, bpm, ms_per_quarter,
                    seconds_per_quarter, idx, events, k, current_offset,
                    now >>

\* Chord branch: "for p in pitches: fs.noteon(0, p, 127)", one call.
VirtualChordOn ==
    /\ prog = "virtual" /\ pc = "chord_on"
    /\ LET pitches == ChordPitches(El)
       IN  /\ sounding' = SoundAfter("on", pitches[k], SYNTH_CHANNEL)
           /\ log' = Append(log, Call("on", ElPos, pitches[k], SYNTH_VELOCITY,
                                      SYNTH_CHANNEL, TRUE))
           /\ IF k < Len(pitches)
              THEN k' = k + 1 /\ pc' = pc
              ELSE k' = 1 /\ pc' = "chord_hold"
    /\ UNCHANGED << converter, scraper, key_offset, prog, handle, TEMPO_BPM, score, bpm, ms_per_quarter,
                    seconds_per_quarter, idx, events, current_offset, now >>

\* Chord branch: time.sleep(dur * (60.0 / bpm))
VirtualChordHold ==
    /\ prog = "virtual" /\ pc = "chord_hold"
    /\ HoldTime(El.quarterLength) >= 0
    /\ now' = now + HoldTime(El.quarterLength)
    /\ log' = Append(log, Wait(ElPos, HoldTime(El.quarterLength), "wait"))
    /\ pc' = "chord_off"
    /\ UNCHANGED << converter, scraper, key_offset, prog, handle, TEMPO_BPM, score, bpm, ms_per_quarter,
                    seconds_per_quarter, idx, events, k, current_offset,
                    sounding >>

\* The note-off loop leaving after its first call.
VirtualChordOff_OnlyFirst ==
    /\ prog = "virtual" /\ pc = "chord_off"
    /\ LET pitches == El.pitches
       IN  /\ sounding' = SoundAfter("off", pitches[k], SYNTH_CHANNEL)
           /\ log' = Append(log, Call("off", ElPos, pitches[k], 0,
                                      SYNTH_CHANNEL, TRUE))
    /\ k' = 1
    /\ pc' = "advance"
    /\ UNCHANGED << converter, scraper, key_offset, prog, handle, TEMPO_BPM, score, bpm, ms_per_quarter,
                    seconds_per_quarter, idx, events, current_offset, now >>

\* Chord branch: "for p in pitches: fs.noteoff(0, p)", one call.
VirtualChordOff ==
    /\ prog = "virtual" /\ pc = "chord_off"
    /\ LET pitches == ChordPitches(El)
       IN  /\ sounding' = SoundAfter("off", pitches[k], SYNTH_CHANNEL)
           /\ log' = Append(log, Call("off", ElPos, pitches[k], 0,
                                      SYNTH_CHANNEL, TRUE))
           /\ IF k < Len(pitches)
              THEN k' = k + 1 /\ pc' = pc
              ELSE k' = 1 /\ pc' = "advance"
    /\ UNCHANGED << converter, scraper, key_offset, prog, handle, TEMPO_BPM, score, bpm, ms_per_quarter,
                    seconds_per_quarter, idx, events, current_offset, now >>

\* A fs.noteon / fs.noteoff call raises: nothing catches it, the script
\* ends with the traceback.
VirtualCallFail ==
    /\ prog = "virtual"
    /\ pc \in {"note_on", "note_off", "chord_on", "chord_off"}
    /\ LET on == pc \in {"note_on", "chord_on"}
           pitch == IF El.type = "Note" THEN El.pitches[1]
                    ELSE ChordPitches(El)[k]
       IN  log' = Append(log, Call(IF on THEN "on" ELSE "off", ElPos, pitch,
                                   IF on THEN SYNTH_VELOCITY ELSE 0,
                                   SYNTH_CHANNEL, FALSE))
    /\ pc' = "crashed"
    /\ UNCHANGED << converter, scraper, key_offset, prog, handle, TEMPO_BPM, score, bpm, ms_per_quarter,
                    seconds_per_quarter, idx, events, k, current_offset, now,
                    sounding >>

\* time.sleep of a negative length (a negative bpm) raises ValueError:
\* nothing catches it, the script ends with what it has turned on.
VirtualSleepFail ==
    /\ prog = "virtual" /\ pc \in {"note_hold", "chord_hold"}
    /\ HoldTime(El.quarterLength) < 0
    /\ pc' = "raised"
    /\ UNCHANGED << converter, scraper, key_offset, prog, handle, TEMPO_BPM, score, bpm,
                    ms_per_quarter, seconds_per_quarter, idx, events, k,
                    current_offset, now, sounding, log >>

\* Back in the loop: current_offset += duration_q * seconds_per_quarter
VirtualAdvance ==
    /\ prog = "virtual" /\ pc = "advance"
    /\ current_offset' = current_offset + El.quarterLength * seconds_per_quarter
    /\ idx' = idx + 1
    /\ pc' = "loop"
    /\ UNCHANGED << converter, scraper, key_offset, prog, handle, TEMPO_BPM, score, bpm, ms_per_quarter,
                    seconds_per_quarter, events, k, now, sounding, log >>

\* After the loop: fs.delete()
VirtualDelete ==
    /\ prog = "virtual" /\ pc = "loop" /\ idx > Len(Els)
    /\ handle' = "released"
    /\ pc' = "done"
    /\ UNCHANGED << converter, scraper, key_offset, prog, TEMPO_BPM, score, bpm, ms_per_quarter,
                    seconds_per_quarter, idx, events, k, current_offset, now,
                    sounding, log >>

VirtualNext ==
    \/ VirtualSynthStart \/ VirtualSynthStartFail
    \/ VirtualSfload \/ VirtualSfloadFail
    \/ VirtualParseScore \/ VirtualParseFail
    \/ VirtualTempo \/ VirtualTempoFail
    \/ VirtualWaitOffset
    \/ VirtualNoteOn \/ VirtualNoteHold \/ VirtualNoteOff
    \/ VirtualChordOn \/ VirtualChordHold \/ VirtualChordOff
    \/ VirtualCallFail \/ VirtualSleepFail
    \/ VirtualAdvance
    \/ VirtualDelete

Next == OrganNext \/ VirtualNext

Spec == Init /\ [][Next]_vars

\* =====================================================================
\* convert_musicxml_to_midi.py
\* =====================================================================

\* The values given to -p / --program ({}: the option is absent).
ProgramArgs == { {}, {0}, {127}, {128}, {0 - 1} }

\* What standard input holds when input() reads it (<<>>: end of file).
StdinLines == { <<>>, <<"y">>, <<"Y">>, <<"n">>, <<"">>, <<"yes">>, <<"YES">> }

\* str.lower() on the answers above.
Lower(s) ==
    CASE s = "Y" -> "y"
      [] s = "YES" -> "yes"
      [] OTHER -> s

InitConverter ==
    /\ PlaybackIdle
    /\ ScraperIdle
    /\ cpc = "check_input"
    /\ args \in [input_xml : {"missing", "file"},
                 output_midi : {"absent", "exists"},
                 program : ProgramArgs]
    /\ stdin \in [tty : BOOLEAN, lines : StdinLines]
    /\ confirm = {}
    /\ midi_file = (IF args.output_midi = "exists" THEN "old" ELSE "absent")
    /\ result = "none"
    /\ exit_code = {}

\* args.input_xml.is_file() is false: parser.error prints the usage and
\* exits with status 2.
ConverterInputMissing ==
    /\ cpc = "check_input"
    /\ args.input_xml # "file"
    /\ result' = "usage"
    /\ exit_code' = {2}
    /\ cpc' = "exited"
    /\ UNCHANGED << playback, scraper, args, stdin, confirm, midi_file >>

\* The input is a file; the next step depends on args.output_midi.exists().
ConverterCheckOutput ==
    /\ cpc = "check_input"
    /\ args.input_xml = "file"
    /\ cpc' = (IF args.output_midi = "exists" THEN "prompt" ELSE "convert")
    /\ UNCHANGED << playback, scraper, args, stdin, confirm, midi_file,
                    result, exit_code >>

\* input(...).lower() returns "y": the run goes on to the conversion.
ConverterConfirm ==
    /\ cpc = "prompt"
    /\ stdin.lines # <<>>
    /\ Lower(Head(stdin.lines)) = "y"
    /\ confirm' = {Lower(Head(stdin.lines))}
    /\ stdin' = [stdin EXCEPT !.lines = Tail(@)]
    /\ cpc' = "convert"
    /\ UNCHANGED << playback, scraper, args, midi_file, result, exit_code >>

\* Any other answer: "Aborted." and sys.exit(0).
ConverterAbort ==
    /\ cpc = "prompt"
    /\ stdin.lines # <<>>
    /\ Lower(Head(stdin.lines)) # "y"
    /\ confirm' = {Lower(Head(stdin.lines))}
    /\ stdin' = [stdin EXCEPT !.lines = Tail(@)]
    /\ result' = "aborted"
    /\ exit_code' = {0}
    /\ cpc' = "exited"
    /\ UNCHANGED << playback, scraper, args, midi_file >>

\* Standard input is at end of file: input() raises EOFError, which
\* nothing catches; the interpreter prints the traceback and exits 1.
ConverterPromptEOF ==
    /\ cpc = "prompt"
    /\ stdin.lines = <<>>
    /\ result' = "eof"
    /\ exit_code' = {1}
    /\ cpc' = "exited"
    /\ UNCHANGED << playback, scraper, args, stdin, confirm, midi_file >>

\* converter.parse returns the score.
ConverterParse ==
    /\ cpc = "convert"
    /\ cpc' = "program"
    /\ UNCHANGED << playback, scraper, args, stdin, confirm, midi_file,
                    result, exit_code >>

\* converter.parse raises: RuntimeError("Failed to parse MusicXML").
ConverterParseFail ==
    /\ cpc = "convert"
    /\ result' = "parse"
    /\ cpc' = "except"
    /\ UNCHANGED << playback, scraper, args, stdin, confirm, midi_file,
                    exit_code >>

\* program is None: nothing is inserted.
ConverterProgramNone ==
    /\ cpc = "program"
    /\ args.program = {}
    /\ cpc' = "write"
    /\ UNCHANGED << playback, scraper, args, stdin, confirm, midi_file,
                    result, exit_code >>

\* not 0 <= program <= 127: ValueError.
ConverterProgramRange ==
    /\ cpc = "program"
    /\ args.program # {}
    /\ ~ (0 <= TheValue(args.program) /\ TheValue(args.program) <= 127)
    /\ result' = "program"
    /\ cpc' = "except"
    /\ UNCHANGED << playback, scraper, args, stdin, confirm, midi_file,
                    exit_code >>

\* The program is in range: a program change is inserted in every part.
ConverterProgramChange ==
    /\ cpc = "program"
    /\ args.program # {}
    /\ 0 <= TheValue(args.program) /\ TheValue(args.program) <= 127
    /\ cpc' = "write"
    /\ UNCHANGED << playback, scraper, args, stdin, confirm, midi_file,
                    result, exit_code >>

\* Building or inserting the program change raises inside the library.
ConverterProgramChangeFail ==
    /\ cpc = "program"
    /\ args.program # {}
    /\ 0 <= TheValue(args.program) /\ TheValue(args.program) <= 127
    /\ result' = "insert"
    /\ cpc' = "except"
    /\ UNCHANGED << playback, scraper, args, stdin, confirm, midi_file,
                    exit_code >>

\* score.write('midi', path) returns: the file holds the new MIDI data.
ConverterWrite ==
    /\ cpc = "write"
    /\ midi_file' = "new"
    /\ result' = "success"
    /\ cpc' = "success"
    /\ UNCHANGED << playback, scraper, args, stdin, confirm, exit_code >>

\* score.write raises: RuntimeError("Failed to write MIDI").  The path
\* may or may not have been opened for writing before the failure.
ConverterWriteFail ==
    /\ cpc = "write"
    /\ midi_file' \in {midi_file, "partial"}
    /\ result' = "write"
    /\ cpc' = "except"
    /\ UNCHANGED << playback, scraper, args, stdin, confirm, exit_code >>

\* The success message is printed and main() returns: status 0.
ConverterSuccess ==
    /\ cpc = "success"
    /\ exit_code' = {0}
    /\ cpc' = "exited"
    /\ UNCHANGED << playback, scraper, args, stdin, confirm, midi_file,
                    result >>

\* The handler exits with status 0 instead of 1.
ConverterExcept_ExitZero ==
    /\ cpc = "except"
    /\ exit_code' = {0}
    /\ cpc' = "exited"
    /\ UNCHANGED << playback, scraper, args, stdin, confirm, midi_file,
                    result >>

\* except Exception: the failure is printed and sys.exit(1).
ConverterExcept ==
    /\ cpc = "except"
    /\ exit_code' = {1}
    /\ cpc' = "exited"
    /\ UNCHANGED << playback, scraper, args, stdin, confirm, midi_file,
                    result >>

ConverterNext ==
    \/ ConverterInputMissing \/ ConverterCheckOutput
    \/ ConverterConfirm \/ ConverterAbort \/ ConverterPromptEOF
    \/ ConverterParse \/ ConverterParseFail
    \/ ConverterProgramNone \/ ConverterProgramRange
    \/ ConverterProgramChange \/ ConverterProgramChangeFail
    \/ ConverterWrite \/ ConverterWriteFail
    \/ ConverterSuccess \/ ConverterExcept

SpecConverter == InitConverter /\ [][ConverterNext]_vars

\* =====================================================================
\* download_lutheran_hymn_sheet_music.py
\* =====================================================================

HYMNS == << "Annie Laurie", "Rock Of Ages", "The Old Rugged Cross",
            "Amazing Grace", "Blessed Assurance",
            "Crown Him with Many Crowns" >>

\* Minimum time between requests, in ms (1.5 s).
MIN_DELAY == 1500

\* How long a request takes from being sent to its return, in ms.
RequestTimes == { 100, 2000 }

\* safe_sleep(previous_time): how long it sleeps, in ms.
safe_sleep(previous_time) ==
    LET elapsed == time - previous_time
    IN  IF elapsed < MIN_DELAY THEN MIN_DELAY - elapsed ELSE 0

\* The times of the last two requests once one more is sent at t.
Send(t) == IF sent = <<>> THEN << t >> ELSE << sent[Len(sent)], t >>

InitScraper ==
    /\ PlaybackIdle
    /\ ConverterIdle
    /\ spc = "loop"
    /\ hymn = 1
    /\ time = 0
    /\ last_request_time = 0 - MIN_DELAY
    /\ sent = <<>>
    /\ attempted = <<>>
    /\ saved = {}

\* The loop body starts for the next hymn: safe_sleep(last_request_time),
\* then last_request_time = time.time().
ScraperSafeSleep ==
    /\ spc = "loop"
    /\ hymn <= Len(HYMNS)
    /\ time' = time + safe_sleep(last_request_time)
    /\ last_request_time' = time'
    /\ attempted' = Append(attempted, hymn)
    /\ spc' = "fetch"
    /\ UNCHANGED << playback, converter, hymn, sent, saved >>

\* The list is exhausted: "All done." and main() returns.
ScraperAllDone ==
    /\ spc = "loop"
    /\ hymn > Len(HYMNS)
    /\ spc' = "finished"
    /\ UNCHANGED << playback, converter, hymn, time, last_request_time,
                    sent, attempted, saved >>

\* fetch(score_page_url) returns the page.
ScraperFetch ==
    /\ spc = "fetch"
    /\ \E d \in RequestTimes :
          /\ sent' = Send(time)
          /\ time' = time + d
    /\ spc' = "find_pdf_link"
    /\ UNCHANGED << playback, converter, hymn, last_request_time,
                    attempted, saved >>

\* raise_for_status raises requests.HTTPError: a warning, then continue.
ScraperFetchHTTPError ==
    /\ spc = "fetch"
    /\ \E d \in RequestTimes :
          /\ sent' = Send(time)
          /\ time' = time + d
    /\ hymn' = hymn + 1
    /\ spc' = "loop"
    /\ UNCHANGED << playback, converter, last_request_time, attempted,
                    saved >>

\* session.get raises another exception (connection refused, timeout):
\* the except clause does not match and the exception leaves main().
ScraperFetchRaises ==
    /\ spc = "fetch"
    /\ \E d \in RequestTimes :
          /\ sent' = Send(time)
          /\ time' = time + d
    /\ spc' = "raised"
    /\ UNCHANGED << playback, converter, hymn, last_request_time,
                    attempted, saved >>

\* find_pdf_link returns a link.
ScraperFindPdfLink ==
    /\ spc = "find_pdf_link"
    /\ spc' = "download"
    /\ UNCHANGED << playback, converter, hymn, time, last_request_time,
                    sent, attempted, saved >>

\* find_pdf_link returns None: a warning, then continue.
ScraperNoPdfLink ==
    /\ spc = "find_pdf_link"
    /\ hymn' = hymn + 1
    /\ spc' = "loop"
    /\ UNCHANGED << playback, converter, time, last_request_time, sent,
                    attempted, saved >>

\* download_pdf sends its request at once and writes the file.
ScraperDownload ==
    /\ spc = "download"
    /\ \E d \in RequestTimes :
          /\ sent' = Send(time)
          /\ time' = time + d
    /\ saved' = saved \cup {hymn}
    /\ hymn' = hymn + 1
    /\ spc' = "loop"
    /\ UNCHANGED << playback, converter, last_request_time, attempted >>

\* raise_for_status raises requests.HTTPError: an error is logged and the
\* loop goes on.
ScraperDownloadHTTPError ==
    /\ spc = "download"
    /\ \E d \in RequestTimes :
          /\ sent' = Send(time)
          /\ time' = time + d
    /\ hymn' = hymn + 1
    /\ spc' = "loop"
    /\ UNCHANGED << playback, converter, last_request_time, attempted,
                    saved >>

\* The download raises another exception (connection error, OSError from
\* open): it leaves main().
ScraperDownloadRaises ==
    /\ spc = "download"
    /\ \E d \in RequestTimes :
          /\ sent' = Send(time)
          /\ time' = time + d
    /\ spc' = "raised"
    /\ UNCHANGED << playback, converter, hymn, last_request_time,
                    attempted, saved >>

ScraperNext ==
    \/ ScraperSafeSleep \/ ScraperAllDone
    \/ ScraperFetch \/ ScraperFetchHTTPError \/ ScraperFetchRaises
    \/ ScraperFindPdfLink \/ ScraperNoPdfLink
    \/ ScraperDownload \/ ScraperDownloadHTTPError
    \/ ScraperDownloadRaises

SpecScraper == InitScraper /\ [][ScraperNext]_vars

\* =====================================================================
\* Reading the history
\* =====================================================================
Exits == {"done", "exit_open", "exit_sfload", "exit_parse", "crashed", "raised"}

\* Backend calls that returned, all of them and those of the object at
\* score position e.
OnCalls == { i \in DOMAIN log : log[i].op = "on" /\ log[i].ok }
OffCalls == { i \in DOMAIN log : log[i].op = "off" /\ log[i].ok }
OnsOf(e) == { i \in OnCalls : log[i].ev = e }
OffsOf(e) == { i \in OffCalls : log[i].ev = e }
\* The duration sleeps (not the pre-element offset sleep) of object e.
WaitsOf(e) == { i \in DOMAIN log : log[i].op = "wait" /\ log[i].ev = e }

SamePitch(i, j) ==
    log[i].pitch = log[j].pitch /\ log[i].channel = log[j].channel

\* The synthesizer script has left play_element for the chord at score
\* position e.
ChordDone(e) ==
    /\ prog = "virtual"
    /\ score.events[e].type = "Chord"
    /\ \E j \in 1..Len(Els) :
          /\ Els[j] = e
          /\ j < idx \/ (j = idx /\ pc = "advance")

\* How often pitch p occurs in the pitch list ps.
Occurrences(ps, p) == Cardinality({ n \in 1..Len(ps) : ps[n] = p })

\* The tempo the claims speak of: the override, else the first marking,
\* else 120 (the MIDI script has no override setting: TEMPO_BPM = {}).
ClaimedBpm == ResolveTempo(TEMPO_BPM, score.marks)

\* The duration of the object at score position e in milliseconds at
\* that tempo: quarterLength * 60 / BPM seconds.
EventMs(e) == Quotient(score.events[e].quarterLength * MS_PER_MINUTE, ClaimedBpm)

\* The summed duration of the first n objects of the score.
RECURSIVE SumMs(_)
SumMs(n) == IF n = 0 THEN 0 ELSE SumMs(n - 1) + EventMs(n)

\* =====================================================================
\* Claims
\* =====================================================================

\* C1: when playback has run to completion (no backend call failed), the
\* number of note-on calls equals the number of note-off calls, every
\* (pitch, channel) that was turned on was turned off afterwards, and no
\* pitch is left sounding.
C1_NoPitchLeftSounding ==
    pc = "done" =>
        /\ Cardinality(OnCalls) = Cardinality(OffCalls)
        /\ \A i \in OnCalls : \E j \in OffCalls : j > i /\ SamePitch(i, j)
        /\ sounding = {}

\* A completed playback of the synthesizer script with at least four
\* note-on calls (so a chord was among them).
C1_Witness ==
    /\ pc = "done"
    /\ prog = "virtual"
    /\ Cardinality(OnCalls) >= 4

\* C8 as stated: in all-voices mode a chord produces as many note-on and
\* note-off calls as it has distinct pitches.
C8_PairPerDistinctPitch ==
    \A e \in DOMAIN score.events :
        ChordDone(e) =>
            LET distinct == Cardinality(Range(score.events[e].pitches))
            IN  /\ Cardinality(OnsOf(e)) = distinct
                /\ Cardinality(OffsOf(e)) = distinct

\* C8 amended: in all-voices mode a chord whose pitch list has n entries
\* produces exactly n note-on and n note-off calls, one pair per entry (a
\* pitch listed twice is turned on twice and off twice); all note-ons come
\* at one instant before the chord's single duration wait, all note-offs
\* at one instant after it.
C8_PairPerVoice ==
    \A e \in DOMAIN score.events :
        ChordDone(e) =>
            LET ps == score.events[e].pitches
            IN  /\ Cardinality(OnsOf(e)) = Len(ps)
                /\ Cardinality(OffsOf(e)) = Len(ps)
                /\ \A n \in 1..Len(ps) :
                      /\ Cardinality({ i \in OnsOf(e) : log[i].pitch = ps[n] })
                            = Occurrences(ps, ps[n])
                      /\ Cardinality({ i \in OffsOf(e) : log[i].pitch = ps[n] })
                            = Occurrences(ps, ps[n])
                /\ Cardinality(WaitsOf(e)) = 1
                /\ \A i \in OnsOf(e), w \in WaitsOf(e), j \in OffsOf(e) :
                      /\ i < w /\ w < j
                      /\ log[i].t = log[w].t
                      /\ log[j].t = log[w].t + log[w].ms

\* The chord that names pitch 67 twice has been played to its end.
C8_Witness ==
    \E e \in DOMAIN score.events :
        /\ ChordDone(e)
        /\ Len(score.events[e].pitches) > Cardinality(Range(score.events[e].pitches))
        /\ Cardinality(OffsOf(e)) = Len(score.events[e].pitches)

\* C9: backend calls are issued in score order with one window at a time:
\* no call for an earlier object follows a call for a later one, every
\* note-on of an object has its note-off before any note-on of a later
\* object is attempted, and nothing sounds at a loop-iteration boundary.
C9_ScoreOrderOneWindow ==
    /\ \A a, b \in DOMAIN log : a < b => log[a].ev <= log[b].ev
    /\ \A b \in DOMAIN log :
          log[b].op = "on" =>
              \A e \in 1..(log[b].ev - 1) :
                  Cardinality({ a \in OnsOf(e) : a < b })
                      = Cardinality({ a \in OffsOf(e) : a < b })
    /\ pc = "loop" => sounding = {}

\* A loop-iteration boundary reached after note-ons of two objects.
C9_Witness ==
    /\ pc = "loop"
    /\ \E a, b \in OnCalls : log[a].ev < log[b].ev

\* C2: when a backend call has failed and playback aborts, a note-off was
\* attempted (after the last note-on) for every pitch that was turned on
\* and not turned off.
C2_CleanupAttempted ==
    pc = "crashed" =>
        \A s \in sounding :
            \E j \in DOMAIN log :
                /\ log[j].op = "off"
                /\ <<log[j].pitch, log[j].channel>> = s
                /\ \A i \in OnCalls :
                      <<log[i].pitch, log[i].channel>> = s => i < j

\* C3: within one object the order is note-on, wait(duration), note-off:
\* between a note-on and the note-off of the same pitch lies a duration
\* wait of that object, and no duration wait of the object follows the
\* note-off.
C3_OffAfterWait ==
    \A i \in OnCalls, j \in DOMAIN log :
        (log[j].op = "off" /\ i < j /\ log[i].ev = log[j].ev /\ SamePitch(i, j)) =>
            /\ \E w \in WaitsOf(log[i].ev) : i < w /\ w < j /\ log[w].ms > 0
            /\ \A w \in WaitsOf(log[i].ev) : w > j => log[w].ms = 0

\* C4: the note-on of the k-th object is issued when the summed durations
\* (quarterLength * 60/BPM) of objects 1..k-1 have elapsed, and a completed
\* playback has blocked for the summed durations of all objects.
C4_StartOffsets ==
    /\ \A i \in DOMAIN log :
          log[i].op = "on" => log[i].t = SumMs(log[i].ev - 1)
    /\ pc = "done" => now = SumMs(Len(score.events))

\* C5: the seconds-per-quarter value used for playback is 60/BPM with BPM
\* the override, else the first tempo marking, else 120: the resolved value
\* is that one, and every duration wait lasts quarterLength times it.
C5_TempoUsed ==
    /\ (prog = "virtual" /\ seconds_per_quarter # 0) =>
          seconds_per_quarter = Quotient(MS_PER_MINUTE, ClaimedBpm)
    /\ (prog = "organ" /\ ms_per_quarter # 0) =>
          ms_per_quarter = Quotient(MS_PER_MINUTE, ClaimedBpm)
    /\ \A w \in DOMAIN log :
          (log[w].op = "wait" /\ log[w].ms > 0) => log[w].ms = EventMs(log[w].ev)

\* C6: at every point of the synthesizer script's playback loop the clock
\* equals the summed durations of all objects before the one dispatched
\* next (of all objects once the loop is over), rests included.
C6_ClockCountsRests ==
    (prog = "virtual" /\ pc = "loop") =>
        current_offset =
            SumMs(IF idx <= Len(Els) THEN Els[idx] - 1 ELSE Len(score.events))

\* C7: after a completed playback every rest of the score has caused no
\* backend call and exactly one wait, of quarterLength * 60/BPM seconds.
C7_RestHolds ==
    pc = "done" =>
        \A e \in DOMAIN score.events :
            score.events[e].type = "Rest" =>
                /\ { i \in DOMAIN log : log[i].ev = e /\ log[i].op \in {"on", "off"} } = {}
                /\ Cardinality(WaitsOf(e)) = 1
                /\ \A w \in WaitsOf(e) : log[w].ms = EventMs(e)

\* C10: whenever the program has ended with the backend handle opened,
\* the handle has been released.
C10_HandleReleased ==
    (pc \in Exits /\ handle # "none") => handle = "released"

\* C11: a score-parse error aborts before any backend resource is
\* acquired: when the program has ended on the parse error, no MIDI port
\* was opened and no synthesizer was started.
C11_NoResourceBeforeParseError ==
    pc = "exit_parse" => handle = "none"

\* The pitch the MIDI script must send for the Note at score position e.
ShiftedPitch(e) == score.events[e].pitches[1] + key_offset

SleepsOf(e) ==
    { i \in DOMAIN log :
        log[i].op \in {"wait", "offset"} /\ log[i].ev = e /\ log[i].ms > 0 }

\* C13: a completed playback of N objects has made exactly N blocking
\* waits, one per object (note, chord or rest), each after the object's
\* note-ons, and has suspended nowhere else.
C13_OneWaitPerEvent ==
    pc = "done" =>
        \A e \in DOMAIN score.events :
            /\ Cardinality(SleepsOf(e)) = 1
            /\ \A w \in SleepsOf(e), i \in OnsOf(e) : i < w

\* C14: with a non-positive TEMPO_BPM override no note-on is issued and
\* no duration wait is made (the override is rejected before playback).
C14_NonPositiveTempoRejected ==
    (TEMPO_BPM # {} /\ TheValue(TEMPO_BPM) <= 0) =>
        \A i \in DOMAIN log : log[i].op \notin {"on", "wait"}

\* C19: in the MIDI script every backend call made for a Chord carries the
\* chord's highest pitch plus the key offset on channel ORGAN_CHANNEL - 1,
\* and a chord that was played to its end got exactly one note-on and one
\* note-off.
C19_HighestPitchOnly ==
    prog = "organ" =>
        \A e \in DOMAIN score.events :
            score.events[e].type = "Chord" =>
                LET calls == { i \in DOMAIN log :
                                 log[i].ev = e /\ log[i].op \in {"on", "off"} }
                    top == CHOOSE p \in Range(score.events[e].pitches) :
                              \A q \in Range(score.events[e].pitches) : q <= p
                IN  /\ \A i \in calls :
                          /\ log[i].pitch = top + key_offset
                          /\ log[i].channel = ORGAN_CHANNEL - 1
                    /\ e < idx =>
                          /\ Cardinality({ i \in calls : log[i].op = "on" }) = 1
                          /\ Cardinality({ i \in calls : log[i].op = "off" }) = 1

\* The chord [67, 60, 67] was played to its end with key offset 5: its one
\* note-on carried pitch 72.
C19_Witness ==
    /\ prog = "organ" /\ key_offset = 5
    /\ \E e \in DOMAIN score.events :
          /\ score.events[e].pitches = <<67, 60, 67>>
          /\ e < idx
          /\ \E i \in OnsOf(e) : log[i].pitch = 72

\* The velocity the claim expects for the object at score position e.
ClaimedVelocity(e) ==
    IF score.events[e].velocity # {} THEN TheValue(score.events[e].velocity)
    ELSE IF prog = "organ" THEN ORGAN_DEFAULT_VELOCITY ELSE SYNTH_VELOCITY

\* C20: every note-on carries the object's explicit velocity when it has
\* one (0 included) and the backend's default (64 / 127) only otherwise.
C20_ExplicitVelocity ==
    \A i \in DOMAIN log :
        log[i].op = "on" => log[i].velocity = ClaimedVelocity(log[i].ev)

\* C15: the converter exits with status 0 when the conversion succeeded
\* (the output file was written) and with status 1 when the conversion
\* failed: the score did not parse, the program number is outside 0..127,
\* or the write failed.
C15_ExitCodes ==
    cpc = "exited" =>
        /\ result = "success" => (midi_file = "new" /\ exit_code = {0})
        /\ result \in {"parse", "program", "insert", "write"} =>
              exit_code = {1}

\* A run with --program 128 ended with status 1.
C15_Witness ==
    /\ cpc = "exited"
    /\ args.program = {128}
    /\ result = "program"
    /\ exit_code = {1}

\* C16: an output file that existed before the run is replaced only after
\* the answer "y" was given on a terminal; with any other answer, and on
\* every run whose standard input is not a terminal, the file is left as
\* it was.
C16_OverwriteOnlyInteractive ==
    (args.output_midi = "exists" /\ midi_file # "old") =>
        (stdin.tty /\ confirm = {"y"})

\* C17: any two consecutive requests of the scraper, page fetches and PDF
\* downloads alike, are sent at least MIN_DELAY apart.
C17_MinDelayBetweenRequests ==
    Len(sent) = 2 => sent[2] - sent[1] >= MIN_DELAY

\* C18: the hymns are attempted once each in list order, and the run ends
\* only after the last one, whatever failed on the way.
C18_BatchNeverStops ==
    /\ \A i \in DOMAIN attempted : attempted[i] = i
    /\ spc \in {"finished", "raised"} => Len(attempted) = Len(HYMNS)

====
